---- MODULE Spec2Model ----
(***************************************************************************)
(* Model of the CORAL 66 language server: the regex-driven semantic parser *)
(* (coral66_semantic_parser.py) and the document store / request handlers  *)
(* (coral66_lsp_server.py).                                                *)
(*                                                                         *)
(* A document text is a sequence of lexemes.  A lexeme is a maximal run of *)
(* word characters (a keyword, an identifier, a numeral), one punctuation  *)
(* mark, or one white-space character ("SP" is a blank, "NL" a newline).   *)
(* Width gives the number of characters of a lexeme, so that every         *)
(* character offset, line and column the code computes is computed here    *)
(* on the same characters.  Texts are well formed: no two word lexemes are *)
(* adjacent (they would be one word), so the regular expressions' \b are   *)
(* exactly the lexeme borders of word lexemes.                             *)
(***************************************************************************)
EXTENDS Integers, Sequences, FiniteSets, TLC

\* ------------------------------------------------------------------------
\* Lexical layer
\* ------------------------------------------------------------------------

\* CORAL66Parser.KEYWORDS
KEYWORDS ==
    { "BEGIN", "END",
      "IF", "THEN", "ELSE", "FOR", "DO", "WHILE", "STEP", "UNTIL", "GOTO",
      "PROCEDURE", "RECURSIVE", "ANSWER",
      "FLOATING", "FIXED", "INTEGER", "UNSIGNED",
      "ARRAY", "TABLE", "SWITCH", "OVERLAY", "WITH", "PRESET",
      "VALUE", "LOCATION",
      "COMMON", "LIBRARY", "EXTERNAL", "ABSOLUTE",
      "BITS", "LABEL",
      "AND", "OR", "DIFFER", "UNION", "MASK",
      "OCTAL", "LITERAL",
      "COMMENT",
      "DEFINE", "DELETE",
      "CODE" }

\* Identifier spellings that occur in the documents explored.  No spelling
\* is a suffix of another one, and "X" is the upper-case spelling of "x".
LowerIdents == {"x", "y", "k", "n", "p", "q", "t", "id"}
UpperIdents == {"X"}
\* A keyword written in lower case (the patterns are compiled IGNORECASE).
LowerKeywords == {"integer"}
\* Numerals; none is a prefix of another one.
Numerals == {"0", "2", "8", "16"}
Puncts == {"(", ")", "[", "]", ":", ";", ",", ".", ":=", "-", "*"}
Spaces == {"SP", "NL"}

\* [a-zA-Z][a-zA-Z0-9]* : every word lexeme that starts with a letter
IsIdentLex(l) == l \in KEYWORDS \cup LowerIdents \cup UpperIdents \cup LowerKeywords
\* \d+
IsNumLex(l) == l \in Numerals
\* \w characters only
IsWordLex(l) == IsIdentLex(l) \/ IsNumLex(l)
\* \s
IsSpace(l) == l \in Spaces

\* str.upper() on one lexeme.  Of the identifiers only "x" has its upper-case
\* spelling among the lexemes; the upper-case spelling of the others is used
\* by the code only to test membership in KEYWORDS, where it is no member.
Upper(l) ==
    CASE l = "x" -> "X"
      [] l = "integer" -> "INTEGER"
      [] OTHER -> l

\* str.lower() on one lexeme
Lower(l) ==
    CASE l = "X" -> "x"
      [] l = "BEGIN" -> "begin"
      [] l = "END" -> "end"
      [] l = "IF" -> "if"
      [] l = "THEN" -> "then"
      [] l = "ELSE" -> "else"
      [] l = "FOR" -> "for"
      [] l = "DO" -> "do"
      [] l = "WHILE" -> "while"
      [] l = "STEP" -> "step"
      [] l = "UNTIL" -> "until"
      [] l = "GOTO" -> "goto"
      [] l = "PROCEDURE" -> "procedure"
      [] l = "RECURSIVE" -> "recursive"
      [] l = "ANSWER" -> "answer"
      [] l = "FLOATING" -> "floating"
      [] l = "FIXED" -> "fixed"
      [] l = "INTEGER" -> "integer"
      [] l = "UNSIGNED" -> "unsigned"
      [] l = "ARRAY" -> "array"
      [] l = "TABLE" -> "table"
      [] l = "SWITCH" -> "switch"
      [] l = "OVERLAY" -> "overlay"
      [] l = "WITH" -> "with"
      [] l = "PRESET" -> "preset"
      [] l = "VALUE" -> "value"
      [] l = "LOCATION" -> "location"
      [] l = "COMMON" -> "common"
      [] l = "LIBRARY" -> "library"
      [] l = "EXTERNAL" -> "external"
      [] l = "ABSOLUTE" -> "absolute"
      [] l = "BITS" -> "bits"
      [] l = "LABEL" -> "label"
      [] l = "AND" -> "and"
      [] l = "OR" -> "or"
      [] l = "DIFFER" -> "differ"
      [] l = "UNION" -> "union"
      [] l = "MASK" -> "mask"
      [] l = "OCTAL" -> "octal"
      [] l = "LITERAL" -> "literal"
      [] l = "COMMENT" -> "comment"
      [] l = "DEFINE" -> "define"
      [] l = "DELETE" -> "delete"
      [] l = "CODE" -> "code"
      [] OTHER -> l

\* the characters of one lexeme
Render(l) == CASE l = "SP" -> " " [] l = "NL" -> "\n" [] OTHER -> l

\* len() of one lexeme
Width(l) == Len(Render(l))

RECURSIVE RenderText(_)
\* the characters of a lexeme sequence, as one string
RenderText(s) == IF s = << >> THEN "" ELSE Render(Head(s)) \o RenderText(Tail(s))

RECURSIVE RenderUpper(_)
\* str.upper() of the characters of a lexeme sequence
RenderUpper(s) ==
    IF s = << >> THEN "" ELSE Render(Upper(Head(s))) \o RenderUpper(Tail(s))

\* the lexeme at index i, "EOF" past the end
Lex(s, i) == IF i >= 1 /\ i <= Len(s) THEN s[i] ELSE "EOF"

\* text[a:b] on lexemes, s[a..b-1]: empty when b <= a, cut at the end of s
Slice(s, a, b) ==
    LET hi == IF b - 1 > Len(s) THEN Len(s) ELSE b - 1
    IN  IF hi < a \/ a < 1 THEN << >> ELSE SubSeq(s, a, hi)

RECURSIVE TextLen(_)
\* len(text): the widths of the lexemes added up, halving the sequence
TextLen(s) ==
    IF Len(s) = 0 THEN 0
    ELSE IF Len(s) = 1 THEN Width(s[1])
         ELSE TextLen(SubSeq(s, 1, Len(s) \div 2))
              + TextLen(SubSeq(s, Len(s) \div 2 + 1, Len(s)))

\* character offset at which lexeme i starts (i = Len(s)+1: end of text)
CharOff(s, i) == TextLen(Slice(s, 1, i))

\* A text is well formed when word lexemes are never adjacent.
WellFormed(s) ==
    \A i \in 1..(Len(s) - 1) : ~(IsWordLex(s[i]) /\ IsWordLex(s[i + 1]))

\* ------------------------------------------------------------------------
\* Data model (Symbol, Reference) and the symbol dictionary
\* ------------------------------------------------------------------------

\* Keys of CORAL66Parser.symbols: a bare lower-case name, a dotted
\* "owner.name" (table element, procedure parameter) or "overlay_<line>_<col>".
NameKey(n) == [tag |-> "name", owner |-> "", name |-> n, line |-> 0, col |-> 0]
DotKey(o, n) == [tag |-> "dot", owner |-> o, name |-> n, line |-> 0, col |-> 0]
OverlayKey(line, col) ==
    [tag |-> "overlay", owner |-> "", name |-> "", line |-> line, col |-> col]

\* '.' in name
HasDot(key) == key.tag = "dot"

\* dataclass Symbol; end_line and end_column are never set and stay 0
Symbol(name, kind, data_type, line, column, scope, documentation, parameters, dimensions, elements) ==
    [name |-> name, kind |-> kind, data_type |-> data_type, line |-> line,
     column |-> column, scope |-> scope, documentation |-> documentation,
     parameters |-> parameters, dimensions |-> dimensions, elements |-> elements]

\* dataclass Reference
Reference(name, line, column, end_column) ==
    [name |-> name, line |-> line, column |-> column, end_column |-> end_column]

\* The dictionary is a sequence of <<key, symbol>> in insertion order.
HasKey(symbols, key) == \E i \in 1..Len(symbols) : symbols[i][1] = key

\* symbols[key]
Get(symbols, key) ==
    symbols[CHOOSE i \in 1..Len(symbols) : symbols[i][1] = key][2]

\* symbols[key] = sym : a key already present keeps its place and takes the
\* new value (the later declaration overwrites), a new key goes last
Put(symbols, key, sym) ==
    IF HasKey(symbols, key)
    THEN [i \in 1..Len(symbols) |->
            IF symbols[i][1] = key THEN <<key, sym>> ELSE symbols[i]]
    ELSE Append(symbols, <<key, sym>>)

\* ------------------------------------------------------------------------
\* Scanner pieces shared by the passes
\* ------------------------------------------------------------------------

\* The least j in lo..hi with P(j), hi+1 when there is none: where a
\* left-to-right search (re.search, finditer, str.find) finds its match.
First(lo, hi, P(_)) ==
    CHOOSE j \in lo..(hi + 1) :
        /\ j = hi + 1 \/ P(j)
        /\ \A k \in lo..(j - 1) : ~P(k)

\* \s* from lexeme i: the index of the first lexeme that is no white space
SkipSpaces(s, i) ==
    IF i > Len(s) THEN i ELSE First(i, Len(s), LAMBDA k : ~IsSpace(s[k]))

\* index of the first lexeme l at or after i, Len(s)+1 when there is none
FindLex(s, i, l) ==
    IF i > Len(s) THEN Len(s) + 1 ELSE First(i, Len(s), LAMBDA k : s[k] = l)

RECURSIVE RemoveComments(_)
\* re.sub(r'\bCOMMENT\b[^;]*;', '', text, flags=re.IGNORECASE): each comment,
\* from the word COMMENT to the next ';', is deleted, so everything after
\* it moves left (and up, if it held newlines)
RemoveComments(s) ==
    LET c == First(1, Len(s), LAMBDA k : /\ Upper(s[k]) = "COMMENT"
                                         /\ FindLex(s, k + 1, ";") <= Len(s))
    IN  IF c > Len(s) THEN s
        ELSE Slice(s, 1, c)
             \o RemoveComments(Slice(s, FindLex(s, c + 1, ";") + 1, Len(s) + 1))

\* _find_position(text, match_start): <<line, column>> of a character offset
FindPosition(s, off) ==
    LET nls == {i \in 1..Len(s) : s[i] = "NL" /\ CharOff(s, i) < off}
        last == CHOOSE i \in nls : \A j \in nls : j <= i
    IN  IF nls = {} THEN <<0, off>>
        ELSE <<Cardinality(nls), off - CharOff(s, last) - 1>>

RECURSIVE IdListEnd(_, _)
\* (?:\s*,\s*ident)* greedily from lexeme i: index after the last repetition
IdListEnd(s, i) ==
    LET c == SkipSpaces(s, i)
        n == SkipSpaces(s, c + 1)
    IN  IF Lex(s, c) = "," /\ IsIdentLex(Lex(s, n))
        THEN IdListEnd(s, n + 1)
        ELSE i

\* the identifiers of id_list.split(','), stripped: the identifier lexemes
IdsOf(s, a, b) == SelectSeq(Slice(s, a, b), IsIdentLex)

\* ident(?:\s*,\s*ident)*(?:\s*:=\s*([^;]+))? from lexeme i, where an
\* identifier must stand: [ok, ids, end].  The preset needs one character
\* that is no ';' after ':=' and then runs up to the next ';'.
MatchIdListPreset(s, i) ==
    IF ~IsIdentLex(Lex(s, i)) THEN [ok |-> FALSE, ids |-> << >>, end |-> i]
    ELSE LET e == IdListEnd(s, i + 1)
             a == SkipSpaces(s, e)
             preset == Lex(s, a) = ":=" /\ a + 1 <= Len(s) /\ s[a + 1] # ";"
         IN  [ok |-> TRUE, ids |-> IdsOf(s, i, e),
              end |-> IF preset THEN FindLex(s, a + 1, ";") ELSE e]

\* ------------------------------------------------------------------------
\* Declaration passes
\* ------------------------------------------------------------------------

RECURSIVE DeclareVariables(_, _, _, _, _, _)
\* for id_name in ids: if not keyword: symbols[id_name.lower()] = Symbol(...)
DeclareVariables(symbols, ids, data_type, doc, line, col) ==
    IF ids = << >> THEN symbols
    ELSE DeclareVariables(
            IF Upper(Head(ids)) \in KEYWORDS THEN symbols
            ELSE Put(symbols, NameKey(Lower(Head(ids))),
                     Symbol(Lower(Head(ids)), "variable", data_type, line, col,
                            "global", doc, << >>, << >>, << >>)),
            Tail(ids), data_type, doc, line, col)

\* The next match of a pattern at or after lexeme `from` (re.search from a
\* position, the next match of finditer).  M(k) is the match tried at lexeme
\* k, a record with the field ok; when nothing matches the result is
\* M(Len(s) + 1), which is not ok.
SearchFrom(s, from, M(_)) == M(First(from, Len(s), LAMBDA k : M(k).ok))

\* \b(INTEGER)\s+idlist(preset)? at lexeme k (type_kw = "INTEGER"), or the
\* FLOATING pattern: [ok, at, data_type, doc, ids, end]
NumberMatch(ok, k, data_type, doc, m) ==
    [ok |-> ok /\ m.ok, at |-> k, data_type |-> data_type, doc |-> doc,
     ids |-> m.ids, end |-> m.end]

MatchSimpleNumber(s, type_kw, k) ==
    NumberMatch(Upper(Lex(s, k)) = type_kw /\ SkipSpaces(s, k + 1) > k + 1,
                k, type_kw, type_kw \o " variable",
                MatchIdListPreset(s, SkipSpaces(s, k + 1)))

\* the body of a finditer loop of _parse_number_declarations for the match m
DeclareNumbers(s, m, symbols) ==
    LET pos == FindPosition(s, CharOff(s, m.at))
    IN  DeclareVariables(symbols, m.ids, m.data_type, m.doc, pos[1], pos[2])

RECURSIVE ScanSimpleNumbers(_, _, _, _)
\* the body of one round of the loop: m is the match at hand
StepSimpleNumbers(s, type_kw, m, symbols) ==
    IF ~m.ok THEN symbols
    ELSE ScanSimpleNumbers(s, type_kw, m.end, DeclareNumbers(s, m, symbols))

\* for match in pattern.finditer(...): the matches from lexeme `from` on
ScanSimpleNumbers(s, type_kw, from, symbols) ==
    StepSimpleNumbers(
            s,
            type_kw,
            SearchFrom(s, from, LAMBDA k : MatchSimpleNumber(s, type_kw, k)),
            symbols)

\* FIXED\s*\(\s*(\d+)\s*,\s*(-?\d+)\s*\) from lexeme i:
\* [ok, total, fraction, end]; fraction is the sign (if any) and the digits
MatchFixedType(s, i) ==
    LET a == SkipSpaces(s, i + 1)          \* (
        b == SkipSpaces(s, a + 1)          \* totalbits
        c == SkipSpaces(s, b + 1)          \* ,
        d == SkipSpaces(s, c + 1)          \* - or fractionbits
        neg == Lex(s, d) = "-"
        e == IF neg THEN d + 1 ELSE d      \* fractionbits
        f == SkipSpaces(s, e + 1)          \* )
    IN  [ok |-> /\ Upper(Lex(s, i)) = "FIXED" /\ Lex(s, a) = "("
                /\ IsNumLex(Lex(s, b)) /\ Lex(s, c) = ","
                /\ IsNumLex(Lex(s, e)) /\ Lex(s, f) = ")",
         total |-> Lex(s, b),
         fraction |-> IF neg THEN "-" \o Lex(s, e) ELSE Lex(s, e),
         end |-> f + 1]

\* f"FIXED({totalbits},{fractionbits})"
FixedTypeName(m) == "FIXED(" \o m.total \o "," \o m.fraction \o ")"

\* \s+idlist(preset)? after the FIXED(t,f) match t at lexeme k
MatchFixedNumberAfter(s, k, t) ==
    NumberMatch(t.ok /\ SkipSpaces(s, t.end) > t.end, k, FixedTypeName(t),
                "Fixed-point variable: " \o t.total \o " total bits, "
                    \o t.fraction \o " fraction bits",
                MatchIdListPreset(s, SkipSpaces(s, t.end)))

\* the FIXED(t,f) number pattern at lexeme k: [ok, at, data_type, doc, ids, end]
MatchFixedNumber(s, k) == MatchFixedNumberAfter(s, k, MatchFixedType(s, k))

RECURSIVE ScanFixedNumbers(_, _, _)
\* the body of one round of the loop: m is the match at hand
StepFixedNumbers(s, m, symbols) ==
    IF ~m.ok THEN symbols
    ELSE ScanFixedNumbers(s, m.end, DeclareNumbers(s, m, symbols))

\* for match in pattern.finditer(...): the matches from lexeme `from` on
ScanFixedNumbers(s, from, symbols) ==
    StepFixedNumbers(
            s,
            SearchFrom(s, from, LAMBDA k : MatchFixedNumber(s, k)),
            symbols)

\* One finditer loop of a declaration pass, run over the whole text.
Loop(name, s, symbols) ==
    CASE name \in {"INTEGER", "FLOATING"} ->
            ScanSimpleNumbers(s, name,
                1,
                symbols)
      [] name = "FIXED" ->
            ScanFixedNumbers(s,
                1, symbols)

RECURSIVE Loops(_, _, _)
\* the loops `names` one after the other, each on what the one before left
Loops(names, s, symbols) ==
    IF names = << >> THEN symbols
    ELSE Loops(Tail(names), s, Loop(Head(names), s, symbols))

\* _parse_number_declarations: the INTEGER loop, the FLOATING loop, the FIXED
\* loop
ParseNumberDeclarations(s, symbols) ==
    Loops(<<"INTEGER", "FLOATING", "FIXED">>, s, symbols)

RECURSIVE SplitBy(_, _)
\* str.split(sep) on lexemes: the pieces between the sep lexemes
SplitBy(s, sep) ==
    LET i == FindLex(s, 1, sep)
    IN  IF i > Len(s) THEN <<s>>
        ELSE <<Slice(s, 1, i)>> \o SplitBy(Slice(s, i + 1, Len(s) + 1), sep)

RECURSIVE StripRight(_)
StripRight(s) ==
    IF s # << >> /\ IsSpace(s[Len(s)]) THEN StripRight(Slice(s, 1, Len(s))) ELSE s

\* str.strip()
Strip(s) == StripRight(Slice(s, SkipSpaces(s, 1), Len(s) + 1))

\* [d.strip() for d in dimensions.split(',')]
DimensionList(dims) ==
    LET parts == SplitBy(dims, ",")
    IN  [i \in 1..Len(parts) |-> RenderText(Strip(parts[i]))]

\* \s+ARRAY\s+(ident)\s*\[([^\]]+)\] from lexeme j, the one after the type:
\* [ok, name, dims, end]
MatchArrayTail(s, j) ==
    LET a == SkipSpaces(s, j)              \* ARRAY
        b == SkipSpaces(s, a + 1)          \* name
        c == SkipSpaces(s, b + 1)          \* [
        close == FindLex(s, c + 1, "]")
    IN  [ok |-> /\ a > j /\ Upper(Lex(s, a)) = "ARRAY"
                /\ b > a + 1 /\ IsIdentLex(Lex(s, b))
                /\ Lex(s, c) = "[" /\ close <= Len(s) /\ close > c + 1,
         name |-> Lex(s, b),
         dims |-> Slice(s, c + 1, close),
         end |-> close + 1]

\* \b(INTEGER|FLOATING)\s+ARRAY\s+(ident)\s*\[([^\]]+)\] at lexeme k:
\* [ok, at, data_type, doc, name, dims, end]
ArrayMatch(ok, k, data_type, doc_head, doc_tail, m) ==
    [ok |-> ok /\ m.ok, at |-> k, data_type |-> data_type,
     doc |-> doc_head \o RenderText(m.dims) \o doc_tail,
     name |-> m.name, dims |-> m.dims, end |-> m.end]

MatchSimpleArray(s, k) ==
    ArrayMatch(Upper(Lex(s, k)) \in {"INTEGER", "FLOATING"}, k,
               Upper(Lex(s, k)) \o " ARRAY",
               Upper(Lex(s, k)) \o " array with dimensions [", "]",
               MatchArrayTail(s, k + 1))

\* \s+ARRAY\s+(ident)\s*\[([^\]]+)\] after the FIXED(t,f) match t at lexeme k
MatchFixedArrayAfter(s, k, t) ==
    ArrayMatch(t.ok, k, FixedTypeName(t) \o " ARRAY", "Fixed-point array [",
               "]: " \o t.total \o " bits, " \o t.fraction \o " fraction bits",
               MatchArrayTail(s, t.end))

\* \b(FIXED)\s*\(t,f\)\s+ARRAY\s+(ident)\s*\[([^\]]+)\] at lexeme k
MatchFixedArray(s, k) == MatchFixedArrayAfter(s, k, MatchFixedType(s, k))

\* the body of a finditer loop of _parse_array_declarations for the match m
DeclareArray(s, m, symbols) ==
    LET pos == FindPosition(s, CharOff(s, m.at))
    IN  Put(symbols, NameKey(Lower(m.name)),
            Symbol(Lower(m.name), "array", m.data_type, pos[1], pos[2],
                   "global", m.doc, << >>, DimensionList(m.dims), << >>))

RECURSIVE ScanSimpleArrays(_, _, _)
\* the body of one round of the loop: m is the match at hand
StepSimpleArrays(s, m, symbols) ==
    IF ~m.ok THEN symbols
    ELSE ScanSimpleArrays(s, m.end, DeclareArray(s, m, symbols))

\* for match in pattern.finditer(...): the matches from lexeme `from` on
ScanSimpleArrays(s, from, symbols) ==
    StepSimpleArrays(
            s,
            SearchFrom(s, from, LAMBDA k : MatchSimpleArray(s, k)),
            symbols)

RECURSIVE ScanFixedArrays(_, _, _)
\* the body of one round of the loop: m is the match at hand
StepFixedArrays(s, m, symbols) ==
    IF ~m.ok THEN symbols
    ELSE ScanFixedArrays(s, m.end, DeclareArray(s, m, symbols))

\* for match in pattern.finditer(...): the matches from lexeme `from` on
ScanFixedArrays(s, from, symbols) ==
    StepFixedArrays(
            s,
            SearchFrom(s, from, LAMBDA k : MatchFixedArray(s, k)),
            symbols)

\* One finditer loop of _parse_array_declarations, run over the whole text.
ArrayLoop(name, s, symbols) ==
    CASE name = "simple" ->
            ScanSimpleArrays(s,
                1, symbols)
      [] name = "FIXED" ->
            ScanFixedArrays(s,
                1, symbols)

RECURSIVE ArrayLoops(_, _, _)
ArrayLoops(names, s, symbols) ==
    IF names = << >> THEN symbols
    ELSE ArrayLoops(Tail(names), s, ArrayLoop(Head(names), s, symbols))

\* _parse_array_declarations: the INTEGER / FLOATING loop, then the FIXED loop
ParseArrayDeclarations(s, symbols) ==
    ArrayLoops(<<"simple", "FIXED">>, s, symbols)

\* (INTEGER|FLOATING|FIXED\s*\([^)]+\)|UNSIGNED\s*\([^)]+\)) from lexeme i:
\* [ok, end]
MatchElementType(s, i) ==
    LET kw == Upper(Lex(s, i))
        a == SkipSpaces(s, i + 1)          \* (
        close == FindLex(s, a + 1, ")")
    IN  IF kw \in {"INTEGER", "FLOATING"} THEN [ok |-> TRUE, end |-> i + 1]
        ELSE [ok |-> /\ kw \in {"FIXED", "UNSIGNED"} /\ Lex(s, a) = "("
                     /\ close <= Len(s) /\ close > a + 1,
              end |-> close + 1]

\* (ident)\s+(type)\s+(-?\d+)(?:\s*,\s*(\d+))? at lexeme i:
\* [ok, at, type, end] with type the lexemes of group 2
MatchElement(s, i) ==
    LET a == SkipSpaces(s, i + 1)          \* type
        t == MatchElementType(s, a)
        b == SkipSpaces(s, t.end)          \* - or wordpos
        w == IF Lex(s, b) = "-" THEN b + 1 ELSE b
        c == SkipSpaces(s, w + 1)          \* ,
        d == SkipSpaces(s, c + 1)          \* bitpos
    IN  [ok |-> /\ IsIdentLex(Lex(s, i)) /\ a > i + 1 /\ t.ok
                /\ b > t.end /\ IsNumLex(Lex(s, w)),
         at |-> i,
         type |-> Slice(s, a, t.end),
         end |-> IF Lex(s, c) = "," /\ IsNumLex(Lex(s, d)) THEN d + 1 ELSE w + 1]

\* str.find: index of the first occurrence of the lexemes sub in s
\* (identifier spellings are suffix-free and numerals prefix-free, so an
\* occurrence of the characters is an occurrence of the lexemes);
\* Len(s)+1 when there is none
FindSub(s, sub) ==
    First(1, Len(s), LAMBDA k : /\ k + Len(sub) - 1 <= Len(s)
                                /\ Slice(s, k, k + Len(sub)) = sub)

\* the body of the inner loop over elements_text (et) for the element match
\* m: acc = [symbols, elements].  The element is placed at
\* match.start() + elements_text.find(its text): the offset inside
\* elements_text is added to the start of the whole TABLE match, not to the
\* start of elements_text.
DeclareElement(s, et, m, table_name, match_start, acc) ==
    LET elem_name == Lower(Lex(et, m.at))
        found == FindSub(et, Slice(et, m.at, m.end))
        pos == FindPosition(s, match_start + CharOff(et, found))
    IN  [symbols |->
            Put(acc.symbols, DotKey(Lower(table_name), elem_name),
                Symbol(elem_name, "element", RenderUpper(m.type),
                       pos[1], pos[2], Lower(table_name),
                       "Element of TABLE " \o table_name,
                       << >>, << >>, << >>)),
         elements |-> Append(acc.elements, elem_name)]

RECURSIVE ScanElements(_, _, _, _, _, _)
\* the body of one round of the loop: m is the match at hand
StepElements(s, et, m, table_name, match_start, acc) ==
    IF ~m.ok THEN acc
    ELSE ScanElements(
            s,
            et,
            m.end,
            table_name,
            match_start,
            DeclareElement(s, et, m, table_name, match_start, acc))

\* for match in pattern.finditer(...): the matches from lexeme `from` on
ScanElements(s, et, from, table_name, match_start, acc) ==
    StepElements(
            s,
            et,
            SearchFrom(et, from, LAMBDA k : MatchElement(et, k)),
            table_name,
            match_start,
            acc)

\* \bTABLE\s+(ident)\s*\[\s*(\d+)\s*,\s*(\d+)\s*\]\s*\[([^\]]*)\] at lexeme
\* i: [ok, at, name, width, length, elements_text, end]
MatchTable(s, i) ==
    LET a == SkipSpaces(s, i + 1)          \* name
        b == SkipSpaces(s, a + 1)          \* [
        c == SkipSpaces(s, b + 1)          \* width
        d == SkipSpaces(s, c + 1)          \* ,
        e == SkipSpaces(s, d + 1)          \* length
        f == SkipSpaces(s, e + 1)          \* ]
        g == SkipSpaces(s, f + 1)          \* [
        close == FindLex(s, g + 1, "]")
    IN  [ok |-> /\ Upper(Lex(s, i)) = "TABLE" /\ a > i + 1
                /\ IsIdentLex(Lex(s, a)) /\ Lex(s, b) = "["
                /\ IsNumLex(Lex(s, c)) /\ Lex(s, d) = ","
                /\ IsNumLex(Lex(s, e)) /\ Lex(s, f) = "]"
                /\ Lex(s, g) = "[" /\ close <= Len(s),
         at |-> i,
         name |-> Lex(s, a), width |-> Lex(s, c), length |-> Lex(s, e),
         elements_text |-> Slice(s, g + 1, close),
         end |-> close + 1]

\* the table's own symbol, stored after its elements: acc is what the inner
\* loop left, [symbols, elements]
DeclareTable(s, m, acc) ==
    LET pos == FindPosition(s, CharOff(s, m.at))
    IN  Put(acc.symbols, NameKey(Lower(m.name)),
            Symbol(Lower(m.name), "table",
                   "TABLE[" \o m.width \o "," \o m.length \o "]",
                   pos[1], pos[2], "global",
                   "Table with width " \o m.width \o ", length " \o m.length,
                   << >>, << >>, acc.elements))

RECURSIVE ScanTables(_, _, _)
\* the body of one round of the loop: m is the match at hand
StepTables(s, m, symbols) ==
    IF ~m.ok THEN symbols
    ELSE ScanTables(
            s,
            m.end,
            DeclareTable(s, m,
                ScanElements(s, m.elements_text, 1, m.name, CharOff(s, m.at),
                             [symbols |-> symbols, elements |-> << >>])))

\* for match in pattern.finditer(...): the matches from lexeme `from` on
ScanTables(s, from, symbols) ==
    StepTables(s, SearchFrom(s, from, LAMBDA k : MatchTable(s, k)), symbols)

\* _parse_table_declarations
ParseTableDeclarations(s, symbols) ==
    ScanTables(s, 1, symbols)

\* (RECURSIVE\s+)?PROCEDURE\s+(ident)\s*(?:\(([^)]*)\))?\s*; from lexeme j:
\* [ok, recursive, name, params_text, end]
MatchProcedureRest(s, j) ==
    LET rec0 == Upper(Lex(s, j)) = "RECURSIVE"
        p == IF rec0 THEN SkipSpaces(s, j + 1) ELSE j      \* PROCEDURE
        a == SkipSpaces(s, p + 1)                          \* name
        b == SkipSpaces(s, a + 1)                          \* ( or ;
        close == FindLex(s, b + 1, ")")
        c == SkipSpaces(s, close + 1)                      \* ; after )
        with_params == Lex(s, b) = "(" /\ close <= Len(s) /\ Lex(s, c) = ";"
    IN  [ok |-> /\ Upper(Lex(s, p)) = "PROCEDURE" /\ (rec0 => p > j + 1)
                /\ a > p + 1 /\ IsIdentLex(Lex(s, a))
                /\ (with_params \/ Lex(s, b) = ";"),
         recursive |-> rec0,
         name |-> Lex(s, a),
         params_text |-> IF with_params THEN Slice(s, b + 1, close) ELSE << >>,
         end |-> IF with_params THEN c + 1 ELSE b + 1]

\* (INTEGER|FLOATING|FIXED\s*\([^)]+\)) from lexeme i: [ok, end]
MatchReturnType(s, i) ==
    LET kw == Upper(Lex(s, i))
        a == SkipSpaces(s, i + 1)
        close == FindLex(s, a + 1, ")")
    IN  IF kw \in {"INTEGER", "FLOATING"} THEN [ok |-> TRUE, end |-> i + 1]
        ELSE [ok |-> /\ kw = "FIXED" /\ Lex(s, a) = "("
                     /\ close <= Len(s) /\ close > a + 1,
              end |-> close + 1]

\* A match of the whole procedure pattern put together: it starts at the
\* character offset start, group 1 is return_type (empty when it did not
\* take part) and r is the match of the rest.
\* [ok, start, return_type, recursive, name, params_text, end]
ProcedureMatch(ok, start, return_type, r) ==
    [ok |-> ok /\ r.ok, start |-> start, return_type |-> return_type,
     recursive |-> r.recursive, name |-> r.name,
     params_text |-> r.params_text, end |-> r.end]

\* the pattern with its return type, at the left border of word lexeme i
MatchTypedProcedure(s, i, t) ==
    ProcedureMatch(IsWordLex(Lex(s, i)) /\ t.ok, CharOff(s, i),
                   Slice(s, i, t.end),
                   MatchProcedureRest(s, SkipSpaces(s, t.end)))

\* the pattern without return type, at the left border of word lexeme i
\* (RECURSIVE or PROCEDURE stands there) or, at_end, at its right border,
\* only white space before RECURSIVE / PROCEDURE
MatchPlainProcedure(s, i, at_end) ==
    ProcedureMatch(IsWordLex(Lex(s, i)),
                   IF at_end THEN CharOff(s, i + 1) ELSE CharOff(s, i),
                   << >>,
                   MatchProcedureRest(s, IF at_end THEN SkipSpaces(s, i + 1)
                                         ELSE i))

\* The whole procedure pattern tried at one word border.  The pattern opens
\* with \b, an optional return type and \s*, so it can start at the left
\* border of a word lexeme i (at_end = FALSE) and also at the right border of
\* any word lexeme i that only white space separates from RECURSIVE /
\* PROCEDURE (at_end = TRUE).  The return type is tried first.
\* The first match at a border of lexeme i: its left border comes before its
\* right border.
FirstOk(a, b) == IF a.ok THEN a ELSE b

MatchProcedure(s, i) ==
    FirstOk(MatchTypedProcedure(s, i, MatchReturnType(s, i)),
            FirstOk(MatchPlainProcedure(s, i, FALSE),
                    MatchPlainProcedure(s, i, TRUE)))

\* re.search(r':\s*(ident(?:\s*,\s*ident)*)', part): the identifiers after
\* the first ':' that an identifier follows; empty when there is no match
ParamIdsOf(part) ==
    LET i == First(1, Len(part),
                   LAMBDA k : /\ part[k] = ":"
                              /\ IsIdentLex(Lex(part, SkipSpaces(part, k + 1))))
        a == SkipSpaces(part, i + 1)
    IN  IF i > Len(part) THEN << >>
        ELSE IdsOf(part, a, IdListEnd(part, a + 1))

RECURSIVE AllParamIds(_)
\* params: the identifiers of every ';'-separated part, in order
AllParamIds(parts) ==
    IF parts = << >> THEN << >>
    ELSE ParamIdsOf(Head(parts)) \o AllParamIds(Tail(parts))

RECURSIVE DeclareParameters(_, _, _, _, _)
\* symbols[f"{proc}.{param}"] = Symbol(PARAMETER, at the procedure's position)
DeclareParameters(symbols, ids, proc_name, line, col) ==
    IF ids = << >> THEN symbols
    ELSE DeclareParameters(
            Put(symbols, DotKey(Lower(proc_name), Lower(Head(ids))),
                Symbol(Lower(Head(ids)), "parameter", "parameter", line, col,
                       Lower(proc_name), "Parameter of " \o proc_name,
                       << >>, << >>, << >>)),
            Tail(ids), proc_name, line, col)

\* the body of the finditer loop of _parse_procedure_declarations
DeclareProcedure(s, symbols, m) ==
    LET typed == m.return_type # << >>
        base == IF typed THEN RenderUpper(m.return_type) \o " PROCEDURE"
                ELSE "PROCEDURE"
        type_str == IF m.recursive THEN "RECURSIVE " \o base ELSE base
        pos == FindPosition(s, m.start)
        params == AllParamIds(SplitBy(m.params_text, ";"))
    IN  Put(DeclareParameters(symbols, params, m.name, pos[1], pos[2]),
            NameKey(Lower(m.name)),
            Symbol(Lower(m.name), IF typed THEN "function" ELSE "procedure",
                   type_str, pos[1], pos[2], "global",
                   type_str \o " - " \o
                      (IF typed THEN "returns " \o RenderUpper(m.return_type)
                       ELSE "no return value"),
                   params, << >>, << >>))

RECURSIVE ScanProcedures(_, _, _)
\* the body of one round of the loop: m is the match at hand
StepProcedures(s, m, symbols) ==
    IF ~m.ok THEN symbols
    ELSE ScanProcedures(s, m.end, DeclareProcedure(s, symbols, m))

\* for match in pattern.finditer(...): the matches from lexeme `from` on
ScanProcedures(s, from, symbols) ==
    StepProcedures(
            s,
            SearchFrom(s, from, LAMBDA k : MatchProcedure(s, k)),
            symbols)

\* _parse_procedure_declarations
ParseProcedureDeclarations(s, symbols) ==
    ScanProcedures(s, 1,
                   symbols)

RECURSIVE JoinComma(_)
\* ', '.join(labels)
JoinComma(names) ==
    IF names = << >> THEN ""
    ELSE IF Len(names) = 1 THEN names[1]
         ELSE names[1] \o ", " \o JoinComma(Tail(names))

\* \bSWITCH\s+(ident)\s*:=\s*(idlist) at lexeme k: [ok, at, name, labels, end]
MatchSwitch(s, k) ==
    LET a == SkipSpaces(s, k + 1)          \* name
        b == SkipSpaces(s, a + 1)          \* :=
        c == SkipSpaces(s, b + 1)          \* first label
        e == IdListEnd(s, c + 1)
    IN  [ok |-> /\ Upper(Lex(s, k)) = "SWITCH" /\ a > k + 1
                /\ IsIdentLex(Lex(s, a)) /\ Lex(s, b) = ":="
                /\ IsIdentLex(Lex(s, c)),
         at |-> k, name |-> Lower(Lex(s, a)), labels |-> IdsOf(s, c, e),
         end |-> e]

\* the body of the finditer loop of _parse_switch_declarations
DeclareSwitch(s, m, symbols) ==
    LET pos == FindPosition(s, CharOff(s, m.at))
    IN  Put(symbols, NameKey(m.name),
            Symbol(m.name, "switch", "SWITCH", pos[1], pos[2], "global",
                   "Switch with labels: " \o JoinComma(m.labels),
                   << >>, << >>, m.labels))

RECURSIVE ScanSwitches(_, _, _)
\* the body of one round of the loop: m is the match at hand
StepSwitches(s, m, symbols) ==
    IF ~m.ok THEN symbols
    ELSE ScanSwitches(s, m.end, DeclareSwitch(s, m, symbols))

\* for match in pattern.finditer(...): the matches from lexeme `from` on
ScanSwitches(s, from, symbols) ==
    StepSwitches(s, SearchFrom(s, from, LAMBDA k : MatchSwitch(s, k)), symbols)

\* _parse_switch_declarations
ParseSwitchDeclarations(s, symbols) ==
    ScanSwitches(s, 1, symbols)

RECURSIVE RenderLower(_)
\* str.lower() of the characters of a lexeme sequence
RenderLower(s) ==
    IF s = << >> THEN "" ELSE Render(Lower(Head(s))) \o RenderLower(Tail(s))

\* \bOVERLAY\s+(ident(?:\s*\[[^\]]*\])?)\s+WITH\s+ at lexeme k:
\* [ok, at, base, end] with base the lexemes of group 1
MatchOverlay(s, k) ==
    LET a == SkipSpaces(s, k + 1)          \* base identifier
        b == SkipSpaces(s, a + 1)          \* [ (optional)
        close == FindLex(s, b + 1, "]")
        indexed == Lex(s, b) = "[" /\ close <= Len(s)
        base_end == IF indexed THEN close + 1 ELSE a + 1
        w == SkipSpaces(s, base_end)       \* WITH
        after == SkipSpaces(s, w + 1)
    IN  [ok |-> /\ Upper(Lex(s, k)) = "OVERLAY" /\ a > k + 1
                /\ IsIdentLex(Lex(s, a)) /\ w > base_end
                /\ Upper(Lex(s, w)) = "WITH" /\ after > w + 1,
         at |-> k, base |-> Slice(s, a, base_end), end |-> after]

\* the body of the finditer loop of _parse_overlay_declarations: the symbol
\* is stored under the key overlay_<line>_<col> and carries the base as name
DeclareOverlay(s, m, symbols) ==
    LET pos == FindPosition(s, CharOff(s, m.at))
    IN  Put(symbols, OverlayKey(pos[1], pos[2]),
            Symbol(RenderLower(m.base), "overlay", "OVERLAY",
                   pos[1], pos[2], "global",
                   "Overlay on " \o RenderText(m.base), << >>, << >>, << >>))

RECURSIVE ScanOverlays(_, _, _)
\* the body of one round of the loop: m is the match at hand
StepOverlays(s, m, symbols) ==
    IF ~m.ok THEN symbols
    ELSE ScanOverlays(s, m.end, DeclareOverlay(s, m, symbols))

\* for match in pattern.finditer(...): the matches from lexeme `from` on
ScanOverlays(s, from, symbols) ==
    StepOverlays(s, SearchFrom(s, from, LAMBDA k : MatchOverlay(s, k)), symbols)

\* _parse_overlay_declarations
ParseOverlayDeclarations(s, symbols) ==
    ScanOverlays(s, 1, symbols)

\* \b(ident)\s*:(?!=) at lexeme k: [ok, at, end]
MatchLabel(s, k) ==
    LET c == SkipSpaces(s, k + 1)
    IN  [ok |-> IsIdentLex(Lex(s, k)) /\ Lex(s, c) = ":", at |-> k,
         end |-> c + 1]

\* the body of the finditer loop of _parse_labels: a keyword is skipped, and
\* a name that is already a key of symbols is left alone
DeclareLabel(s, m, symbols) ==
    LET key == NameKey(Lower(Lex(s, m.at)))
        pos == FindPosition(s, CharOff(s, m.at))
    IN  IF Upper(Lex(s, m.at)) \in KEYWORDS \/ HasKey(symbols, key)
        THEN symbols
        ELSE Put(symbols, key,
                 Symbol(Lower(Lex(s, m.at)), "label", "LABEL", pos[1], pos[2],
                        "global", "Label", << >>, << >>, << >>))

RECURSIVE ScanLabels(_, _, _)
\* the body of one round of the loop: m is the match at hand
StepLabels(s, m, symbols) ==
    IF ~m.ok THEN symbols
    ELSE ScanLabels(s, m.end, DeclareLabel(s, m, symbols))

\* for match in pattern.finditer(...): the matches from lexeme `from` on
ScanLabels(s, from, symbols) ==
    StepLabels(s, SearchFrom(s, from, LAMBDA k : MatchLabel(s, k)), symbols)

\* _parse_labels
ParseLabels(s, symbols) ==
    ScanLabels(s, 1, symbols)

\* _parse_references: every identifier of the text that is no keyword, in
\* text order
ParseReferences(s) ==
    LET at == SelectSeq([k \in 1..Len(s) |-> k],
                        LAMBDA k : IsIdentLex(s[k]) /\ Upper(s[k]) \notin KEYWORDS)
        Pos(k) == FindPosition(s, CharOff(s, k))
    IN  [n \in 1..Len(at) |->
            Reference(Lower(s[at[n]]), Pos(at[n])[1], Pos(at[n])[2],
                      Pos(at[n])[2] + Width(s[at[n]]))]

\* CORAL66Parser.__init__
NewParser ==
    [symbols |-> << >>, references |-> << >>, diagnostics |-> << >>,
     lines |-> << >>]

\* the declaration passes of parse, in the order parse calls them
DeclarationPasses ==
    << "_parse_number_declarations", "_parse_array_declarations",
       "_parse_table_declarations", "_parse_procedure_declarations",
       "_parse_switch_declarations", "_parse_overlay_declarations",
       "_parse_labels" >>

\* one declaration pass on the cleaned text s
Pass(name, s, symbols) ==
    CASE name = "_parse_number_declarations" -> ParseNumberDeclarations(s, symbols)
      [] name = "_parse_array_declarations" -> ParseArrayDeclarations(s, symbols)
      [] name = "_parse_table_declarations" -> ParseTableDeclarations(s, symbols)
      [] name = "_parse_procedure_declarations" ->
            ParseProcedureDeclarations(s, symbols)
      [] name = "_parse_switch_declarations" -> ParseSwitchDeclarations(s, symbols)
      [] name = "_parse_overlay_declarations" ->
            ParseOverlayDeclarations(s, symbols)
      [] name = "_parse_labels" -> ParseLabels(s, symbols)

RECURSIVE Passes(_, _, _)
\* the passes `names` one after the other, each filling the dictionary the
\* one before left
Passes(names, s, symbols) ==
    IF names = << >> THEN symbols
    ELSE Passes(Tail(names), s, Pass(Head(names), s, symbols))

\* a parse that starts from the symbols and references the parser holds
ParseWithoutReset(parser, text) ==
    [symbols |-> Passes(DeclarationPasses, RemoveComments(text), parser.symbols),
     references |-> parser.references \o ParseReferences(RemoveComments(text)),
     diagnostics |-> parser.diagnostics,
     lines |-> SplitBy(text, "NL")]

\* CORAL66Parser.parse on the parser state `parser`: every field is reset
\* (nothing of `parser` is read), the comments are removed, the seven
\* declaration passes run in this order on the cleaned text, then the
\* reference pass.  self.lines keeps the lines of the text as given,
\* comments included.  No pass appends to self.diagnostics.
Parse(parser, text) ==
    [symbols |-> Passes(DeclarationPasses, RemoveComments(text), << >>),
     references |-> ParseReferences(RemoveComments(text)),
     diagnostics |-> << >>,
     lines |-> SplitBy(text, "NL")]

\* ------------------------------------------------------------------------
\* Queries of the parser
\* ------------------------------------------------------------------------

\* sorted(self.KEYWORDS)
SortedKeywords ==
    << "ABSOLUTE", "AND", "ANSWER", "ARRAY", "BEGIN", "BITS", "CODE", "COMMENT",
       "COMMON", "DEFINE", "DELETE", "DIFFER", "DO", "ELSE", "END", "EXTERNAL",
       "FIXED", "FLOATING", "FOR", "GOTO", "IF", "INTEGER", "LABEL", "LIBRARY",
       "LITERAL", "LOCATION", "MASK", "OCTAL", "OR", "OVERLAY", "PRESET",
       "PROCEDURE", "RECURSIVE", "STEP", "SWITCH", "TABLE", "THEN", "UNION",
       "UNSIGNED", "UNTIL", "VALUE", "WHILE", "WITH" >>

\* get_completions: the keywords, then every symbol whose key has no dot,
\* in dictionary order.  The position is not read.
GetCompletions(parser, line, column) ==
    LET bare == SelectSeq(parser.symbols, LAMBDA e : ~HasDot(e[1]))
    IN  [i \in 1..Len(SortedKeywords) |->
            [label |-> SortedKeywords[i], kind |-> "keyword",
             detail |-> "CORAL 66 keyword",
             documentation |-> "CORAL 66 keyword: " \o SortedKeywords[i]]]
        \o
        [i \in 1..Len(bare) |->
            [label |-> bare[i][2].name, kind |-> bare[i][2].kind,
             detail |-> bare[i][2].data_type,
             documentation |-> bare[i][2].documentation]]

\* the first identifier of line_text with match.start() <= column <=
\* match.end(): its index in the line, Len(line_text)+1 when there is none
WordIndexAt(line_text, column) ==
    First(1, Len(line_text),
          LAMBDA k : /\ IsIdentLex(line_text[k])
                     /\ CharOff(line_text, k) <= column
                     /\ column <= CharOff(line_text, k + 1))

\* the word under the position: [found, word]; not found when the line is
\* past the end of self.lines or no identifier touches the column
WordAt(parser, line, column) ==
    IF line >= Len(parser.lines) THEN [found |-> FALSE, word |-> ""]
    ELSE LET line_text == parser.lines[line + 1]
             i == WordIndexAt(line_text, column)
         IN  IF i > Len(line_text) THEN [found |-> FALSE, word |-> ""]
             ELSE [found |-> TRUE, word |-> line_text[i]]

\* Optional[Dict]: None
None == [found |-> FALSE]

\* get_hover
GetHover(parser, line, column) ==
    LET w == WordAt(parser, line, column)
        key == NameKey(Lower(w.word))
        sym == Get(parser.symbols, key)
    IN  IF ~w.found THEN None
        ELSE IF Upper(w.word) \in KEYWORDS
             THEN [found |-> TRUE,
                   contents |-> "**" \o Upper(w.word) \o "**\n\nCORAL 66 keyword"]
             ELSE IF HasKey(parser.symbols, key)
                  THEN [found |-> TRUE,
                        contents |-> "**" \o sym.name \o "**: " \o sym.data_type
                                     \o "\n\n" \o sym.documentation]
                  ELSE None

\* get_definition: the word under the position is looked up by its bare
\* lower-case spelling
GetDefinition(parser, line, column) ==
    LET w == WordAt(parser, line, column)
        key == NameKey(Lower(w.word))
        sym == Get(parser.symbols, key)
    IN  IF w.found /\ HasKey(parser.symbols, key)
        THEN [found |-> TRUE, line |-> sym.line, column |-> sym.column,
              name |-> sym.name]
        ELSE None

\* get_references_at: every reference whose name is the lower-case spelling
\* of the word under the position
GetReferencesAt(parser, line, column) ==
    LET w == WordAt(parser, line, column)
        hits == SelectSeq(parser.references, LAMBDA r : r.name = Lower(w.word))
    IN  IF ~w.found THEN << >>
        ELSE [i \in 1..Len(hits) |->
                [line |-> hits[i].line, column |-> hits[i].column,
                 end_column |-> hits[i].end_column]]

RECURSIVE SortedByLine(_)
\* sorted(symbols, key=lambda x: x['line']): stable, so entries of one line
\* keep their dictionary order
SortedByLine(entries) ==
    IF entries = << >> THEN << >>
    ELSE LET least == CHOOSE l \in {entries[i].line : i \in 1..Len(entries)} :
                        \A i \in 1..Len(entries) : l <= entries[i].line
         IN  SelectSeq(entries, LAMBDA e : e.line = least)
             \o SortedByLine(SelectSeq(entries, LAMBDA e : e.line # least))

\* get_document_symbols: the symbols whose key has no dot, sorted by line
GetDocumentSymbols(parser) ==
    LET bare == SelectSeq(parser.symbols, LAMBDA e : ~HasDot(e[1]))
    IN  SortedByLine([i \in 1..Len(bare) |->
            [name |-> bare[i][2].name, kind |-> bare[i][2].kind,
             detail |-> bare[i][2].data_type, line |-> bare[i][2].line,
             column |-> bare[i][2].column]])

\* ------------------------------------------------------------------------
\* The inputs explored
\* ------------------------------------------------------------------------

\* Pieces of CORAL 66 text, as lexemes; a document is a few of them in a row.
\* a scalar declaration: 'INTEGER x;'
FragInteger ==
    <<"INTEGER", "SP", "x", ";">>

\* a second scalar declaration: 'FLOATING y;'
FragFloating ==
    <<"FLOATING", "SP", "y", ";">>

\* a comment: 'COMMENT y;'
FragComment ==
    <<"COMMENT", "SP", "y", ";">>

\* a line break: '\n'
FragNewline ==
    <<"NL">>

\* a procedure with a parameter x that its body, on the next line, uses:
\* 'PROCEDURE p(VALUE INTEGER: x);\nBEGIN x := 0 END;'
FragProcedure ==
    <<"PROCEDURE", "SP", "p", "(", "VALUE", "SP", "INTEGER", ":",
       "SP", "x", ")", ";", "NL", "BEGIN", "SP", "x", "SP", ":=",
       "SP", "0", "SP", "END", ";">>

\* a statement using x and y: 'x := y;'
FragUse ==
    <<"x", "SP", ":=", "SP", "y", ";">>

\* a table with an element x: 'TABLE t[2,8][x INTEGER 0];'
FragTable ==
    <<"TABLE", "SP", "t", "[", "2", ",", "8", "]", "[", "x", "SP",
       "INTEGER", "SP", "0", "]", ";">>

\* a statement label x: 'x: '
FragLabel ==
    <<"x", ":", "SP">>

\* a malformed declaration head: 'TABLE t[2 PROCEDURE ('
FragBroken ==
    <<"TABLE", "SP", "t", "[", "2", "SP", "PROCEDURE", "SP", "(">>

Fragments ==
    { FragInteger, FragFloating, FragComment, FragNewline, FragProcedure,
      FragUse, FragTable, FragLabel, FragBroken }

\* a document holds at most MaxFrags fragments
MaxFrags == 2
\* positions asked about: lines 0..MaxLine, characters 0..MaxColumn
MaxLine == 2
MaxColumn == 8
\* the server is given NumUris documents
NumUris == 2

RECURSIVE Concat(_)
Concat(fs) == IF fs = << >> THEN << >> ELSE Head(fs) \o Concat(Tail(fs))

\* Whole documents with the declaration forms the fragments lack.
\* a table and a qualified use of its element:
\* 'TABLE t[2,8][x INTEGER 0];t.x := 0;'
DocQualified ==
    FragTable \o <<"t", ".", "x", "SP", ":=", "SP", "0", ";">>

\* an array whose lower bound is an identifier: 'INTEGER ARRAY k[n:8];'
DocArray ==
    <<"INTEGER", "SP", "ARRAY", "SP", "k", "[", "n", ":", "8", "]", ";">>

\* an unsigned number: 'UNSIGNED(8) n;'
DocUnsigned ==
    <<"UNSIGNED", "(", "8", ")", "SP", "n", ";">>

\* an overlay on a declared variable: 'INTEGER x;OVERLAY x WITH INTEGER y;'
DocOverlay ==
    FragInteger
    \o <<"OVERLAY", "SP", "x", "SP", "WITH", "SP", "INTEGER", "SP", "y", ";">>

Documents == { DocQualified, DocArray, DocUnsigned, DocOverlay }

\* every text of at most MaxFrags fragments, and the whole documents
AllTexts ==
    {Concat(fs) : fs \in UNION {[1..n -> Fragments] : n \in 0..MaxFrags}}
    \cup Documents

\* the texts the documents of the many-document server are given: empty,
\* well formed, malformed, several lines
ServerTexts ==
    { << >>, FragInteger, FragProcedure, FragBroken,
      FragFloating \o FragNewline \o FragUse }

Uris == 1..NumUris
Lines == 0..MaxLine
Columns == 0..MaxColumn

\* CORAL66Parser() followed by parse(text), for every text explored; the
\* analysis of a text depends on nothing else, so each is computed once
ParseTable == {<<t, Parse(NewParser, t)>> : t \in AllTexts \cup ServerTexts}

\* parser = CORAL66Parser(); parser.parse(text)
ParseFresh(text) == (CHOOSE e \in ParseTable : e[1] = text)[2]

\* ------------------------------------------------------------------------
\* The language server: document store and request handlers
\* ------------------------------------------------------------------------

VARIABLES
    documents,  \* CORAL66LanguageServer.documents: uri -> text
    parsers,    \* CORAL66LanguageServer.parsers: uri -> parser (its snapshot)
    request,    \* the message handled last: method and parameters
    response,   \* what its handler returned
    supplied,   \* the client's side: uri -> the full text it supplied last,
                \* for the documents it holds open
    closed,     \* the client's side: the uris it had open and closed, and
                \* has not supplied a text for since
    sent        \* what main wrote to stdout for the message handled last

vars == <<documents, parsers, request, response, supplied, closed, sent>>

\* d[key] = value and del d[key] on a dictionary held as a function
SetItem(d, key, value) ==
    [k \in DOMAIN d \cup {key} |-> IF k = key THEN value ELSE d[k]]
DelItem(d, key) == [k \in DOMAIN d \ {key} |-> d[k]]

\* the empty dictionary
EmptyDict == [k \in {} |-> 0]

\* an _update_document that parses only the first text of a document and
\* keeps the parser the document already has
UpdateDocumentKeepingParser(uri, text) ==
    /\ documents' = SetItem(documents, uri, text)
    /\ parsers' = IF uri \in DOMAIN parsers THEN parsers
                  ELSE SetItem(parsers, uri, ParseFresh(text))

\* an _update_document whose parser is shared by all the documents
UpdateDocumentSharingParser(uri, text) ==
    /\ documents' = SetItem(documents, uri, text)
    /\ parsers' = [k \in DOMAIN parsers \cup {uri} |-> ParseFresh(text)]

\* _update_document: the text is stored, a new parser parses it and
\* replaces the document's parser
UpdateDocument(uri, text) ==
    /\ documents' = SetItem(documents, uri, text)
    /\ parsers' = SetItem(parsers, uri, ParseFresh(text))

\* a _handle_did_close that deletes the text and keeps the parser
CloseDocumentKeepingParser(uri) ==
    /\ documents' = DelItem(documents, uri)
    /\ parsers' = parsers

\* the two del statements of _handle_did_close: both entries of the uri are
\* deleted when present
CloseDocument(uri) ==
    /\ documents' = DelItem(documents, uri)
    /\ parsers' = DelItem(parsers, uri)

\* message.get('id') of a message that carries no id
NoId == -1

\* the keys of the handlers dictionary of handle_message
Handlers ==
    {"initialize", "initialized", "shutdown", "exit",
     "textDocument/didOpen", "textDocument/didChange", "textDocument/didClose",
     "textDocument/completion", "textDocument/hover",
     "textDocument/definition", "textDocument/references",
     "textDocument/documentSymbol"}

\* what handle_message returns for a message whose handler, if it has one,
\* returned `result`: a result for a known method and an error for an unknown
\* one when the message carries an id, otherwise nothing.  main writes it to
\* stdout when it is not None.
HandleMessage(message, result) ==
    IF message.method \in Handlers
    THEN IF message.id # NoId
         THEN [jsonrpc |-> "2.0", id |-> message.id, result |-> result]
         ELSE None
    ELSE IF message.id # NoId
         THEN [jsonrpc |-> "2.0", id |-> message.id,
               error |-> [code |-> -32601,
                          message |-> "Method not found: " \o message.method]]
         ELSE None

\* the exception a handler raised, caught by main
Raised(exception) == [found |-> FALSE, raised |-> exception]

\* kind_map of _handle_completion, with its default 1 (no entry for overlay)
CompletionKind(kind) ==
    CASE kind = "keyword" -> 14
      [] kind \in {"variable", "array", "parameter"} -> 6
      [] kind = "table" -> 22
      [] kind \in {"procedure", "function"} -> 3
      [] kind = "switch" -> 13
      [] kind = "label" -> 15
      [] kind = "element" -> 5
      [] OTHER -> 1

\* kind_map of _handle_document_symbol, with its default 13
DocumentSymbolKind(kind) ==
    CASE kind \in {"variable", "parameter"} -> 13
      [] kind = "array" -> 18
      [] kind \in {"table", "overlay"} -> 23
      [] kind \in {"procedure", "function"} -> 12
      [] kind = "switch" -> 10
      [] kind = "label" -> 15
      [] kind = "element" -> 8
      [] OTHER -> 13

\* {'start': {'line', 'character'}, 'end': {'line', 'character'}}
Range(line, from, to) ==
    [start |-> [line |-> line, character |-> from],
     end |-> [line |-> line, character |-> to]]

\* _handle_completion
HandleCompletion(prs, uri, line, character) ==
    IF uri \notin DOMAIN prs THEN << >>
    ELSE LET completions == GetCompletions(prs[uri], line, character)
         IN  [i \in 1..Len(completions) |->
                [label |-> completions[i].label,
                 kind |-> CompletionKind(completions[i].kind),
                 detail |-> completions[i].detail,
                 documentation |-> completions[i].documentation]]

\* _handle_hover
HandleHover(prs, uri, line, character) ==
    IF uri \notin DOMAIN prs THEN None
    ELSE LET hover == GetHover(prs[uri], line, character)
         IN  IF hover.found
             THEN [found |-> TRUE,
                   contents |-> [kind |-> "markdown", value |-> hover.contents]]
             ELSE None

\* _handle_definition
HandleDefinition(prs, uri, line, character) ==
    IF uri \notin DOMAIN prs THEN None
    ELSE LET definition == GetDefinition(prs[uri], line, character)
         IN  IF definition.found
             THEN [found |-> TRUE, uri |-> uri,
                   range |-> Range(definition.line, definition.column,
                                   definition.column + Len(definition.name))]
             ELSE None

\* _handle_references
HandleReferences(prs, uri, line, character) ==
    IF uri \notin DOMAIN prs THEN << >>
    ELSE LET refs == GetReferencesAt(prs[uri], line, character)
         IN  [i \in 1..Len(refs) |->
                [uri |-> uri,
                 range |-> Range(refs[i].line, refs[i].column,
                                 refs[i].end_column)]]

\* _handle_document_symbol
HandleDocumentSymbol(prs, uri) ==
    IF uri \notin DOMAIN prs THEN << >>
    ELSE LET symbols == GetDocumentSymbols(prs[uri])
         IN  [i \in 1..Len(symbols) |->
                [name |-> symbols[i].name,
                 kind |-> DocumentSymbolKind(symbols[i].kind),
                 location |->
                    [uri |-> uri,
                     range |-> Range(symbols[i].line, symbols[i].column,
                                     symbols[i].column + Len(symbols[i].name))]]]

\* ------------------------------------------------------------------------
\* Actions: one per handler
\* ------------------------------------------------------------------------

Init ==
    /\ documents = EmptyDict
    /\ parsers = EmptyDict
    /\ supplied = EmptyDict
    /\ closed = {}
    /\ request = [method |-> "", id |-> NoId]
    /\ response = None
    /\ sent = None

\* _handle_did_open
DidOpen(uri, text) ==
    /\ UpdateDocument(uri, text)
    /\ supplied' = SetItem(supplied, uri, text)
    /\ closed' = closed \ {uri}
    /\ request' = [method |-> "textDocument/didOpen", id |-> NoId,
                   uri |-> uri, text |-> text]
    /\ response' = None
    /\ sent' = HandleMessage(request', response')

\* _handle_did_change: contentChanges is empty or holds the new full text;
\* an empty list changes nothing
DidChange(uri, changes) ==
    /\ IF changes # << >>
       THEN /\ UpdateDocument(uri, changes[1])
            /\ supplied' = SetItem(supplied, uri, changes[1])
            /\ closed' = closed \ {uri}
       ELSE UNCHANGED <<documents, parsers, supplied, closed>>
    /\ request' = [method |-> "textDocument/didChange", id |-> NoId,
                   uri |-> uri, contentChanges |-> changes]
    /\ response' = None
    /\ sent' = HandleMessage(request', response')

\* _handle_did_close
DidClose(uri) ==
    /\ CloseDocument(uri)
    /\ supplied' = DelItem(supplied, uri)
    /\ closed' = IF uri \in DOMAIN supplied THEN closed \cup {uri} ELSE closed
    /\ request' = [method |-> "textDocument/didClose", id |-> NoId,
                   uri |-> uri]
    /\ response' = None
    /\ sent' = HandleMessage(request', response')

\* a position-addressed query, sent as a request
Query(method, uri, line, character) ==
    [method |-> method, id |-> 1, uri |-> uri, line |-> line,
     character |-> character]

Completion(uri, line, character) ==
    /\ request' = Query("textDocument/completion", uri, line, character)
    /\ response' = HandleCompletion(parsers, uri, line, character)
    /\ sent' = HandleMessage(request', response')
    /\ UNCHANGED <<documents, parsers, supplied, closed>>

\* a hover handler that drops the parser it has asked
HoverDroppingParser(uri, line, character) ==
    /\ request' = Query("textDocument/hover", uri, line, character)
    /\ response' = HandleHover(parsers, uri, line, character)
    /\ parsers' = DelItem(parsers, uri)
    /\ sent' = HandleMessage(request', response')
    /\ UNCHANGED <<documents, supplied, closed>>

Hover(uri, line, character) ==
    /\ request' = Query("textDocument/hover", uri, line, character)
    /\ response' = HandleHover(parsers, uri, line, character)
    /\ sent' = HandleMessage(request', response')
    /\ UNCHANGED <<documents, parsers, supplied, closed>>

Definition(uri, line, character) ==
    /\ request' = Query("textDocument/definition", uri, line, character)
    /\ response' = HandleDefinition(parsers, uri, line, character)
    /\ sent' = HandleMessage(request', response')
    /\ UNCHANGED <<documents, parsers, supplied, closed>>

References(uri, line, character) ==
    /\ request' = Query("textDocument/references", uri, line, character)
    /\ response' = HandleReferences(parsers, uri, line, character)
    /\ sent' = HandleMessage(request', response')
    /\ UNCHANGED <<documents, parsers, supplied, closed>>

DocumentSymbol(uri) ==
    /\ request' = [method |-> "textDocument/documentSymbol", id |-> 1,
                   uri |-> uri]
    /\ response' = HandleDocumentSymbol(parsers, uri)
    /\ sent' = HandleMessage(request', response')
    /\ UNCHANGED <<documents, parsers, supplied, closed>>

\* The server with NumUris documents, each given a text of ServerTexts.
Next ==
    \/ \E uri \in Uris, text \in ServerTexts : DidOpen(uri, text)
    \/ \E uri \in Uris, text \in ServerTexts : DidChange(uri, <<text>>)
    \/ \E uri \in Uris : DidChange(uri, << >>)
    \/ \E uri \in Uris : DidClose(uri)
    \/ \E uri \in Uris, line \in Lines, character \in Columns :
            Completion(uri, line, character)
    \/ \E uri \in Uris, line \in Lines, character \in Columns :
            Hover(uri, line, character)
    \/ \E uri \in Uris, line \in Lines, character \in Columns :
            Definition(uri, line, character)
    \/ \E uri \in Uris, line \in Lines, character \in Columns :
            References(uri, line, character)
    \/ \E uri \in Uris : DocumentSymbol(uri)

Spec == Init /\ [][Next]_vars

\* The server with one document, given every text of AllTexts.
NextOne ==
    \/ \E text \in AllTexts : DidOpen(1, text)
    \/ \E text \in AllTexts : DidChange(1, <<text>>)
    \/ DidChange(1, << >>)
    \/ DidClose(1)
    \/ \E line \in Lines, character \in Columns : Completion(1, line, character)
    \/ \E line \in Lines, character \in Columns : Hover(1, line, character)
    \/ \E line \in Lines, character \in Columns : Definition(1, line, character)
    \/ \E line \in Lines, character \in Columns : References(1, line, character)
    \/ DocumentSymbol(1)

SpecOne == Init /\ [][NextOne]_vars

SyncMethods ==
    {"textDocument/didOpen", "textDocument/didChange", "textDocument/didClose"}

PositionMethods ==
    {"textDocument/completion", "textDocument/hover",
     "textDocument/definition", "textDocument/references"}

QueryMethods == PositionMethods \cup {"textDocument/documentSymbol"}

\* The message loop of main with one document: besides the messages above,
\* the lifecycle messages, messages of unknown methods and messages without
\* their parameters, each sent with an id or without one.
MsgIds == {NoId, 0, 1}

UnknownMethods == {"textDocument/rename", "$/cancelRequest"}

\* the handlers that read params['textDocument']
TextDocumentMethods == SyncMethods \cup QueryMethods

\* _handle_initialize: the capabilities and the server's name
InitializeResult ==
    [capabilities |->
        [textDocumentSync |-> [openClose |-> TRUE, change |-> 1],
         hoverProvider |-> TRUE, definitionProvider |-> TRUE,
         referencesProvider |-> TRUE, documentSymbolProvider |-> TRUE],
     serverInfo |-> [name |-> "coral66-lsp", version |-> "1.0.0"]]

\* _handle_initialize, _handle_initialized, _handle_shutdown
ServeLifecycle(method, id) ==
    /\ request' = [method |-> method, id |-> id]
    /\ response' = IF method = "initialize" THEN InitializeResult ELSE None
    /\ sent' = HandleMessage(request', response')
    /\ UNCHANGED <<documents, parsers, supplied, closed>>

\* a message whose method has no handler
ServeUnknown(method, id) ==
    /\ request' = [method |-> method, id |-> id]
    /\ response' = None
    /\ sent' = HandleMessage(request', response')
    /\ UNCHANGED <<documents, parsers, supplied, closed>>

\* a textDocument message with params {}: the handler raises KeyError on
\* params['textDocument'] before it does anything, handle_message does not
\* return, main catches the exception, reports it on stderr and writes
\* nothing to stdout
ServeIncomplete(method, id) ==
    /\ request' = [method |-> method, id |-> id, params |-> << >>]
    /\ response' = Raised("KeyError")
    /\ sent' = None
    /\ UNCHANGED <<documents, parsers, supplied, closed>>

\* _handle_exit: sys.exit(0) ends the process; nothing is written and no
\* later message is read
ServeExit(id) ==
    /\ request' = [method |-> "exit", id |-> id]
    /\ response' = None
    /\ sent' = None
    /\ UNCHANGED <<documents, parsers, supplied, closed>>

\* main reads the next message unless the process has ended
Running == request.method # "exit"

NextDispatch ==
    \/ Running /\ \E text \in ServerTexts : DidOpen(1, text)
    \/ Running /\ \E text \in ServerTexts : DidChange(1, <<text>>)
    \/ Running /\ DidChange(1, << >>)
    \/ Running /\ DidClose(1)
    \/ Running /\ \E line \in Lines, character \in Columns :
            Completion(1, line, character)
    \/ Running /\ \E line \in Lines, character \in Columns :
            Hover(1, line, character)
    \/ Running /\ \E line \in Lines, character \in Columns :
            Definition(1, line, character)
    \/ Running /\ \E line \in Lines, character \in Columns :
            References(1, line, character)
    \/ Running /\ DocumentSymbol(1)
    \/ Running /\ \E method \in {"initialize", "initialized", "shutdown"},
                     id \in MsgIds : ServeLifecycle(method, id)
    \/ Running /\ \E method \in UnknownMethods, id \in MsgIds :
            ServeUnknown(method, id)
    \/ Running /\ \E method \in TextDocumentMethods, id \in MsgIds :
            ServeIncomplete(method, id)
    \/ Running /\ \E id \in MsgIds : ServeExit(id)

SpecDispatch == Init /\ [][NextDispatch]_vars

\* One parser object that is given one text after the other: parsers[1] is
\* the parser, documents[1] the text it parsed last and supplied[1] the text
\* it parsed before that.
ParserTexts ==
    ServerTexts
    \cup { FragTable, FragComment \o FragInteger, DocArray, DocOverlay,
           DocQualified }

\* parser = CORAL66Parser()
InitParser ==
    /\ parsers = SetItem(EmptyDict, 1, NewParser)
    /\ documents = EmptyDict
    /\ supplied = EmptyDict
    /\ closed = {}
    /\ request = [method |-> "CORAL66Parser"]
    /\ response = None
    /\ sent = None

\* parser.parse(text) on the parser as the parse before left it
ParseAgain(text) ==
    /\ parsers' = SetItem(parsers, 1, Parse(parsers[1], text))
    /\ documents' = SetItem(documents, 1, text)
    /\ supplied' = documents
    /\ request' = [method |-> "parse", text |-> text]
    /\ response' = None
    /\ UNCHANGED <<closed, sent>>

NextParser == \E text \in ParserTexts : ParseAgain(text)

SpecParser == InitParser /\ [][NextParser]_vars

\* ------------------------------------------------------------------------
\* Properties of the document store
\* ------------------------------------------------------------------------

\* the empty result of a query: an empty list or nothing
IsEmptyResult(r) == r = << >> \/ r = None

\* C1: every uri that was opened or changed and not closed since has a
\* snapshot, and the snapshot is the analysis of the full text supplied last
\* for that uri and of nothing else; the stored text is that text. No text,
\* well formed or not, leaves an opened or changed document without one.
C1_SnapshotOfLatestText ==
    /\ DOMAIN parsers = DOMAIN supplied
    /\ DOMAIN documents = DOMAIN supplied
    /\ \A uri \in DOMAIN supplied :
            /\ documents[uri] = supplied[uri]
            /\ parsers[uri] = ParseFresh(supplied[uri])

\* C1 happens: a document that is open has just been changed to a malformed
\* text, while another document holds symbols of its own
C1_Witness ==
    /\ request.method = "textDocument/didChange"
    /\ request.contentChanges = <<FragBroken>>
    /\ request.uri \in DOMAIN parsers
    /\ parsers[request.uri].symbols = << >>
    /\ \E other \in DOMAIN parsers \ {request.uri} :
            parsers[other].symbols # << >>

\* C2: a uri that was closed and not given a text since has neither text nor
\* snapshot, each of the five queries on it returns the empty result, and
\* closing a uri that is not open changes neither store.
C2_ClosedIsForgotten ==
    /\ [](\A uri \in closed :
            uri \notin DOMAIN documents /\ uri \notin DOMAIN parsers)
    /\ []((request.method \in QueryMethods /\ request.uri \in closed)
            => IsEmptyResult(response))
    /\ [][(request'.method = "textDocument/didClose"
            /\ request'.uri \notin DOMAIN documents)
            => UNCHANGED <<documents, parsers>>]_vars

\* C2 happens: a query is answered for a document that was closed, while the
\* other document is still held with its symbols
C2_Witness ==
    /\ request.method \in QueryMethods
    /\ request.uri \in closed
    /\ IsEmptyResult(response)
    /\ \E other \in DOMAIN parsers : parsers[other].symbols # << >>

\* the answers to every query on a document, given the parsers
Answers(prs, uri) ==
    [symbols |-> HandleDocumentSymbol(prs, uri),
     at |-> [pos \in Lines \X Columns |->
                <<HandleCompletion(prs, uri, pos[1], pos[2]),
                  HandleHover(prs, uri, pos[1], pos[2]),
                  HandleDefinition(prs, uri, pos[1], pos[2]),
                  HandleReferences(prs, uri, pos[1], pos[2])>>]]

\* the answers for each document holding each text of the server, computed
\* once: a handler reads nothing of the parsers but the entry of its uri
AnswerTable ==
    {<<uri, ParseFresh(text),
       Answers(SetItem(EmptyDict, uri, ParseFresh(text)), uri)>> :
        uri \in Uris, text \in ServerTexts}

QueryResults(prs, uri) ==
    IF uri \in DOMAIN prs
            /\ \E e \in AnswerTable : e[1] = uri /\ e[2] = prs[uri]
    THEN (CHOOSE e \in AnswerTable : e[1] = uri /\ e[2] = prs[uri])[3]
    ELSE Answers(prs, uri)

\* what the server holds of a document
Held(docs, prs, uri) ==
    <<uri \in DOMAIN docs, uri \in DOMAIN prs,
      IF uri \in DOMAIN docs THEN docs[uri] ELSE None,
      IF uri \in DOMAIN prs THEN prs[uri] ELSE None>>

\* C3: an open, change or close addressed to one uri leaves the stored text
\* and the snapshot of every other uri as they were, and every query on
\* another uri has the same answer before and after.
C3_DocumentsIndependent ==
    [][request'.method \in SyncMethods =>
        \A other \in Uris \ {request'.uri} :
            /\ Held(documents', parsers', other)
                    = Held(documents, parsers, other)
            /\ QueryResults(parsers', other) = QueryResults(parsers, other)]_vars

\* C3 happens: one document has just been opened, changed or closed while
\* another is held with symbols and references
C3_Witness ==
    /\ request.method \in SyncMethods
    /\ \E other \in DOMAIN parsers \ {request.uri} :
            /\ parsers[other].symbols # << >>
            /\ parsers[other].references # << >>

\* ------------------------------------------------------------------------
\* Properties of resolution and of the queries
\* ------------------------------------------------------------------------

\* (line, column) of lexeme k of the text, counted in the text as given
PositionOf(text, k) == FindPosition(text, CharOff(text, k))

\* the identifier token of the text under a position: its index,
\* Len(text) + 1 when no identifier touches the position
TokenAt(text, line, character) ==
    First(1, Len(text),
          LAMBDA k : /\ IsIdentLex(text[k])
                     /\ PositionOf(text, k)[1] = line
                     /\ PositionOf(text, k)[2] <= character
                     /\ character <= PositionOf(text, k)[2] + Width(text[k]))

\* the PROCEDURE keyword whose declaration and BEGIN..END body hold lexeme k
\* (0 when k is at global level): the nearest one before k with no END
\* between it and k and an END at or after k
ProcedureAround(text, k) ==
    LET heads == {i \in 1..k :
                    /\ Upper(text[i]) = "PROCEDURE"
                    /\ \A j \in i..(k - 1) : Upper(text[j]) # "END"
                    /\ \E j \in k..Len(text) : Upper(text[j]) = "END"}
    IN  IF heads = {} THEN 0 ELSE CHOOSE i \in heads : \A j \in heads : j <= i

\* the scope enclosing lexeme k: the name of the procedure around it, "" for
\* the global scope
ScopeAt(text, k) ==
    LET head == ProcedureAround(text, k)
        name == First(head + 1, Len(text), LAMBDA j : IsIdentLex(text[j]))
    IN  IF head = 0 \/ name > Len(text) THEN "" ELSE Lower(text[name])

\* nearest-enclosing-scope lookup of the identifier at lexeme k among the
\* symbols: the key of the Symbol it is bound to, None when it is bound to
\* none
Resolve(symbols, text, k) ==
    LET n == Lower(text[k])
        scope == ScopeAt(text, k)
    IN  IF scope # "" /\ HasKey(symbols, DotKey(scope, n)) THEN DotKey(scope, n)
        ELSE IF HasKey(symbols, NameKey(n)) THEN NameKey(n)
        ELSE None

\* the text of the request's document has no comment
NoComment(text) == RemoveComments(text) = text

\* the answer to a definition request that points at the declaration of sym
DefinitionOf(uri, sym) ==
    [found |-> TRUE, uri |-> uri,
     range |-> Range(sym.line, sym.column, sym.column + Len(sym.name))]

\* the answer to a hover request that describes sym
HoverOf(sym) ==
    [found |-> TRUE,
     contents |-> [kind |-> "markdown",
                   value |-> "**" \o sym.name \o "**: " \o sym.data_type
                             \o "\n\n" \o sym.documentation]]

\* C4: the references returned for a position are occurrences bound to the
\* Symbol the token at the position is bound to: none of them is an
\* occurrence of a Symbol of the same spelling declared in another scope.
C4_ReferencesOfOneSymbol ==
    (request.method = "textDocument/references"
        /\ request.uri \in DOMAIN documents)
    => LET text == documents[request.uri]
           symbols == parsers[request.uri].symbols
           k == TokenAt(text, request.line, request.character)
       IN  (NoComment(text) /\ k <= Len(text))
           => \A i \in 1..Len(response) :
                LET j == TokenAt(text, response[i].range.start.line,
                                 response[i].range.start.character)
                IN  /\ j <= Len(text)
                    /\ Resolve(symbols, text, j) = Resolve(symbols, text, k)

\* C5: when a name is declared both at global level and as a parameter of a
\* procedure, both Symbols exist, and hover and definition on a token of that
\* name answer with the parameter inside the procedure and with the global
\* Symbol outside it.
C5_ShadowingResolvesInnermost ==
    (request.method \in {"textDocument/hover", "textDocument/definition"}
        /\ request.uri \in DOMAIN documents)
    => LET text == documents[request.uri]
           symbols == parsers[request.uri].symbols
           k == TokenAt(text, request.line, request.character)
       IN  (/\ NoComment(text)
            /\ k <= Len(text)
            /\ Upper(text[k]) \notin KEYWORDS
            /\ HasKey(symbols, NameKey(Lower(text[k])))
            /\ \E j \in 1..Len(symbols) :
                    /\ HasDot(symbols[j][1])
                    /\ symbols[j][1].name = Lower(text[k])
                    /\ symbols[j][2].kind = "parameter")
           => LET sym == Get(symbols, Resolve(symbols, text, k))
              IN  response = IF request.method = "textDocument/hover"
                             THEN HoverOf(sym)
                             ELSE DefinitionOf(request.uri, sym)

\* the scalar declarations 'INTEGER n;' and 'FLOATING n;' of the text at
\* global level: the index of the type keyword of each
ScalarDeclarations(text) ==
    {i \in 1..(Len(text) - 3) :
        /\ Upper(text[i]) \in {"INTEGER", "FLOATING"}
        /\ text[i + 1] = "SP"
        /\ IsIdentLex(text[i + 2]) /\ Upper(text[i + 2]) \notin KEYWORDS
        /\ text[i + 3] = ";"
        /\ ScopeAt(text, i) = ""}

\* C6: removing the comments keeps the length of the text, and the line and
\* column recorded for every Reference are those of an occurrence of its
\* name in the text as given.
C6_PositionsOfOriginalText ==
    \A uri \in DOMAIN parsers :
        LET text == documents[uri]
            refs == parsers[uri].references
        IN  /\ TextLen(RemoveComments(text)) = TextLen(text)
            /\ \A i \in 1..Len(refs) :
                \E k \in 1..Len(text) :
                    /\ IsIdentLex(text[k])
                    /\ Lower(text[k]) = refs[i].name
                    /\ PositionOf(text, k) = <<refs[i].line, refs[i].column>>

\* C7: when a name is declared twice at global level, the Symbol kept is
\* the one of the first declaration and a diagnostic is recorded.
C7_FirstDeclarationWins ==
    \A uri \in DOMAIN parsers :
        LET text == documents[uri]
            symbols == parsers[uri].symbols
        IN  NoComment(text) =>
            \A i, j \in ScalarDeclarations(text) :
                (i < j /\ Lower(text[i + 2]) = Lower(text[j + 2])
                    /\ \A h \in 1..(i - 1) : Lower(text[h]) # Lower(text[i + 2]))
                => /\ HasKey(symbols, NameKey(Lower(text[i + 2])))
                   /\ LET sym == Get(symbols, NameKey(Lower(text[i + 2])))
                      IN  /\ <<sym.line, sym.column>> = PositionOf(text, i)
                          /\ sym.data_type = Upper(text[i])
                   /\ parsers[uri].diagnostics # << >>

\* C8: an identifier bound to no Symbol is recorded with a diagnostic, and
\* the identifier of a declaration is not recorded as a Reference.
C8_UnboundAndDeclarationSites ==
    \A uri \in DOMAIN parsers :
        LET text == documents[uri]
            symbols == parsers[uri].symbols
            refs == parsers[uri].references
        IN  NoComment(text) =>
            /\ (\E k \in 1..Len(text) :
                    /\ IsIdentLex(text[k]) /\ Upper(text[k]) \notin KEYWORDS
                    /\ Resolve(symbols, text, k) = None)
                => parsers[uri].diagnostics # << >>
            /\ \A i \in ScalarDeclarations(text) :
                \A r \in 1..Len(refs) :
                    <<refs[r].line, refs[r].column>> # PositionOf(text, i + 2)

\* the names visible from a scope: those of the global Symbols and those of
\* the parameters of the procedure that is the scope
VisibleNames(symbols, scope) ==
    {symbols[i][2].name : i \in
        {i \in 1..Len(symbols) :
            \/ ~HasDot(symbols[i][1])
            \/ /\ scope # ""
               /\ symbols[i][1].owner = scope
               /\ symbols[i][2].kind = "parameter"}}

\* C9: the completions at a position are the keywords and exactly the
\* Symbols visible from the scope enclosing the position.
C9_CompletionsAreVisibleSymbols ==
    (request.method = "textDocument/completion"
        /\ request.uri \in DOMAIN documents)
    => LET text == documents[request.uri]
           symbols == parsers[request.uri].symbols
           k == TokenAt(text, request.line, request.character)
       IN  (NoComment(text) /\ k <= Len(text))
           => {response[i].label : i \in 1..Len(response)}
                = KEYWORDS \cup VisibleNames(symbols, ScopeAt(text, k))

\* C10: the document symbols are ordered by line, then by column, and the
\* parameters of a procedure and the elements of a table are listed beneath
\* their owner.
C10_OutlineOrderedAndNested ==
    (request.method = "textDocument/documentSymbol"
        /\ request.uri \in DOMAIN parsers)
    => LET symbols == parsers[request.uri].symbols
           Start(i) == response[i].location.range.start
       IN  /\ \A i, j \in 1..Len(response) :
                i < j => \/ Start(i).line < Start(j).line
                         \/ /\ Start(i).line = Start(j).line
                            /\ Start(i).character <= Start(j).character
           /\ \A n \in 1..Len(symbols) :
                HasDot(symbols[n][1])
                => \E i \in 1..Len(response) :
                    /\ response[i].name = symbols[n][1].owner
                    /\ "children" \in DOMAIN response[i]

InBrackets(text, k) ==
    \E i \in 1..(k - 1) :
        /\ text[i] \in {"[", "("}
        /\ \A j \in i..k : text[j] \notin {"]", ")"}

\* C12: no identifier inside a parameter list or inside the brackets of an
\* array dimension list is a LABEL Symbol: whenever a label is recorded, it is
\* for an identifier outside brackets that is followed by ':'.
C12_LabelsOutsideBrackets ==
    \A uri \in DOMAIN parsers :
        LET text == documents[uri]
            symbols == parsers[uri].symbols
        IN  NoComment(text) =>
            \A n \in 1..Len(symbols) :
                (symbols[n][2].kind = "label")
                => \E k \in 1..Len(text) :
                    /\ IsIdentLex(text[k])
                    /\ Upper(text[k]) \notin KEYWORDS
                    /\ Lower(text[k]) = symbols[n][2].name
                    /\ PositionOf(text, k) = <<symbols[n][2].line, symbols[n][2].column>>
                    /\ text[SkipSpaces(text, k + 1)] = ":"
                    /\ ~InBrackets(text, k)

\* the number declarations 'T n;' of the text with T one of INTEGER,
\* FLOATING and UNSIGNED(bits): <<index of the identifier, type descriptor>>
NumberDeclarations(text) ==
    {<<i + 2, Upper(text[i])>> : i \in ScalarDeclarations(text)}
    \cup {<<i + 5, "UNSIGNED(" \o text[i + 2] \o ")">> : i \in
            {i \in 1..(Len(text) - 6) :
                /\ Upper(text[i]) = "UNSIGNED" /\ text[i + 1] = "("
                /\ IsNumLex(text[i + 2]) /\ text[i + 3] = ")"
                /\ text[i + 4] = "SP"
                /\ IsIdentLex(text[i + 5]) /\ Upper(text[i + 5]) \notin KEYWORDS
                /\ text[i + 6] = ";"
                /\ ScopeAt(text, i) = ""}}

\* C13: every number declaration of the text, of type INTEGER, FLOATING or
\* UNSIGNED(bits), has a variable Symbol of its lower-case name in the
\* snapshot.
C13_EveryDeclarationHasSymbol ==
    \A uri \in DOMAIN parsers :
        LET text == documents[uri]
            symbols == parsers[uri].symbols
        IN  NoComment(text) =>
            \A d \in NumberDeclarations(text) :
                /\ HasKey(symbols, NameKey(Lower(text[d[1]])))
                /\ Get(symbols, NameKey(Lower(text[d[1]]))).kind = "variable"

\* C16: definition on a token that names a scalar declared once answers with
\* a span that starts, in the text as given, at that declaration or at its
\* identifier; where there is no token, or the identifier names no Symbol at
\* all, it answers nothing.
C16_DefinitionIsDeclarationSpan ==
    (request.method = "textDocument/definition"
        /\ request.uri \in DOMAIN documents)
    => LET text == documents[request.uri]
           symbols == parsers[request.uri].symbols
           k == TokenAt(text, request.line, request.character)
           decls == IF k > Len(text) THEN {}
                    ELSE {i \in ScalarDeclarations(text) :
                            Lower(text[i + 2]) = Lower(text[k])}
           Start(i) == [line |-> PositionOf(text, i)[1],
                        character |-> PositionOf(text, i)[2]]
       IN  /\ (k > Len(text)
                \/ \A n \in 1..Len(symbols) : symbols[n][2].name # Lower(text[k]))
                => response = None
           /\ (Cardinality(decls) = 1
                /\ \A n \in 1..Len(symbols) :
                        symbols[n][2].name = Lower(text[k])
                        => symbols[n][1] = NameKey(Lower(text[k])))
                => /\ response # None
                   /\ \E i \in decls :
                        response.range.start \in {Start(i), Start(i + 2)}

\* C17: no two completions have the same label.
C17_CompletionsDeduplicated ==
    (request.method = "textDocument/completion"
        /\ request.uri \in DOMAIN parsers)
    => \A i, j \in 1..Len(response) :
            response[i].label = response[j].label => i = j

\* the answer of the handler of a query to the request, given the parsers
AnswerTo(req, prs) ==
    CASE req.method = "textDocument/completion" ->
            HandleCompletion(prs, req.uri, req.line, req.character)
      [] req.method = "textDocument/hover" ->
            HandleHover(prs, req.uri, req.line, req.character)
      [] req.method = "textDocument/definition" ->
            HandleDefinition(prs, req.uri, req.line, req.character)
      [] req.method = "textDocument/references" ->
            HandleReferences(prs, req.uri, req.line, req.character)
      [] req.method = "textDocument/documentSymbol" ->
            HandleDocumentSymbol(prs, req.uri)

\* C14: a query, at any position and for any uri, open or not, leaves every
\* stored text and every snapshot as it was, and the same query asked again
\* right after has the answer just given.
C14_QueriesAreStateless ==
    [][request'.method \in QueryMethods
        => /\ documents' = documents
           /\ parsers' = parsers
           /\ response' = AnswerTo(request', parsers')]_vars

\* C14 happens: a position query was answered for an open document with
\* symbols, at a line past the end of its text, while the other uri is not
\* open
C14_Witness ==
    /\ request.method \in PositionMethods
    /\ request.uri \in DOMAIN parsers
    /\ parsers[request.uri].symbols # << >>
    /\ request.line >= Len(parsers[request.uri].lines)
    /\ DOMAIN parsers # Uris

\* C15: a parser that parses a text holds the snapshot a new parser holds
\* after parsing that text, whatever it parsed before: same symbols, same
\* references in the same order, same diagnostics.
C15_ParseIsIdempotent ==
    \A uri \in DOMAIN documents :
        /\ parsers[uri].symbols = Parse(NewParser, documents[uri]).symbols
        /\ parsers[uri].references = Parse(NewParser, documents[uri]).references
        /\ parsers[uri].diagnostics = Parse(NewParser, documents[uri]).diagnostics

\* C15 happens: the parser has parsed a text with symbols and references
\* after a different text with symbols and references
C15_Witness ==
    /\ request.method = "parse"
    /\ 1 \in DOMAIN supplied
    /\ supplied[1] # documents[1]
    /\ Parse(NewParser, supplied[1]).symbols # << >>
    /\ parsers[1].symbols # << >>
    /\ parsers[1].references # << >>

\* C18: a message that carries an id is answered with one response of that
\* id, a result when its method is known, whatever its parameters, and the
\* error -32601 when it is not; a message without id is answered with
\* nothing; after a message whose handler failed the server handles the next.
C18_RequestResponseDiscipline ==
    /\ request.id # NoId
        => /\ sent # None
           /\ sent.id = request.id
           /\ IF request.method \in Handlers
              THEN "result" \in DOMAIN sent
              ELSE "error" \in DOMAIN sent /\ sent.error.code = -32601
    /\ request.id = NoId => sent = None
    /\ response = Raised("KeyError") => ENABLED NextDispatch

====
